---- MODULE Spec2Model ----
(***************************************************************************)
(* send_met_office_weather_to_pushbullet.py: the glyph encoders, the       *)
(* nice-day classifier and one run of the program (module import, main()). *)
(*                                                                         *)
(* A Python str is a sequence of one-character strings on the input side   *)
(* and a sequence of unicode code points on the output side.  A call that  *)
(* can raise yields Return(value) or Raise(exception name).                *)
(***************************************************************************)
EXTENDS Integers, Sequences, FiniteSets, TLC

VARIABLES
    call,           \* a direct call of one function: [fn, args]
    ret,            \* what that call came back with: Pending, Return(v), Raise(e)
    pc,             \* where the run of the program is
    environ,        \* os.environ: the names of the variables that are set
    argv,           \* sys.argv
    location_name,  \* main: location_name
    forecasts,      \* main: forecasts
    i,              \* main: the loop index of `for i, forecast in enumerate`
    body,           \* main: body
    raised,         \* the exception the run raised ("" while none)
    pushes,         \* the (title, body) pairs handed to Pushbullet.push_note
    log,            \* the records the run logged at ERROR level
    exit_status     \* the exit status of the process (Running until it ends)

vars == <<call, ret, pc, environ, argv, location_name, forecasts, i, body,
          raised, pushes, log, exit_status>>

callVars == <<call, ret>>
runVars == <<pc, environ, argv, location_name, forecasts, i, body, raised,
             pushes, log, exit_status>>

-----------------------------------------------------------------------------
(* Bounds of the model *)

MaxStrLen == 3          \* longest string handed to string_to_fullwidth
MaxWidth == 4           \* largest rjustlen handed to string_to_fullwidth
MaxBelow == 10          \* weather type codes from -MaxBelow ...
MaxAbove == 10          \*   ... up to 30 + MaxAbove
MaxSpeed == 120         \* largest wind speed handed to get_wind_speed
MaxForecasts == 5       \* longest forecast list handed to calc_nice_day_emoticon
MaxReps == 3            \* most 3-hourly reports in one Met Office response

-----------------------------------------------------------------------------
(* Python helpers *)

Pending == [kind |-> "pending", value |-> <<>>]
Return(v) == [kind |-> "return", value |-> v]
Raise(e) == [kind |-> "raise", value |-> e]

max(a, b) == IF a >= b THEN a ELSE b

range(start, stop) == start..(stop - 1)

\* s[a:b] for 0 <= a
slice(s, a, b) == SubSeq(s, a + 1, IF b <= Len(s) THEN b ELSE Len(s))

reversed(s) == [k \in 1..Len(s) |-> s[Len(s) + 1 - k]]

DIGITS == <<"0", "1", "2", "3", "4", "5", "6", "7", "8", "9">>

LOWER == <<"a", "b", "c", "d", "e", "f", "g", "h", "i", "j", "k", "l", "m",
           "n", "o", "p", "q", "r", "s", "t", "u", "v", "w", "x", "y", "z">>

UPPER == <<"A", "B", "C", "D", "E", "F", "G", "H", "I", "J", "K", "L", "M",
           "N", "O", "P", "Q", "R", "S", "T", "U", "V", "W", "X", "Y", "Z">>

RECURSIVE str_digits(_)
str_digits(n) ==
    IF n < 10 THEN <<DIGITS[n + 1]>>
    ELSE Append(str_digits(n \div 10), DIGITS[(n % 10) + 1])

\* str(n) of an int
str(n) == IF n < 0 THEN <<"-">> \o str_digits(-n) ELSE str_digits(n)

\* string.upper()
upper(string) ==
    [k \in 1..Len(string) |->
        IF \E j \in 1..26 : LOWER[j] = string[k]
        THEN UPPER[CHOOSE j \in 1..26 : LOWER[j] = string[k]]
        ELSE string[k]]

ljust(string, width) ==
    IF Len(string) >= width THEN string
    ELSE string \o [k \in 1..(width - Len(string)) |-> " "]

\* string.rjust(width)
rjust(string, width) ==
    IF Len(string) >= width THEN string
    ELSE [k \in 1..(width - Len(string)) |-> " "] \o string

\* the code points of an ASCII literal
NEWLINE == 10
MPH == <<109, 112, 104>>

-----------------------------------------------------------------------------
(* The glyph tables *)

FULLWIDTH_UNICODE ==
    " " :> 12288 @@
    "-" :> 65293 @@
    "0" :> 65296 @@
    "1" :> 65297 @@
    "2" :> 65298 @@
    "3" :> 65299 @@
    "4" :> 65300 @@
    "5" :> 65301 @@
    "6" :> 65302 @@
    "7" :> 65303 @@
    "8" :> 65304 @@
    "9" :> 65305 @@
    "A" :> 65313 @@
    "B" :> 65314 @@
    "C" :> 65315 @@
    "D" :> 65316 @@
    "E" :> 65317 @@
    "F" :> 65318 @@
    "G" :> 65319 @@
    "H" :> 65320 @@
    "I" :> 65321 @@
    "J" :> 65322 @@
    "K" :> 65323 @@
    "L" :> 65324 @@
    "M" :> 65325 @@
    "N" :> 65326 @@
    "O" :> 65327 @@
    "P" :> 65328 @@
    "Q" :> 65329 @@
    "R" :> 65330 @@
    "S" :> 65331 @@
    "T" :> 65332 @@
    "U" :> 65333 @@
    "V" :> 65334 @@
    "W" :> 65335 @@
    "X" :> 65336 @@
    "Y" :> 65337 @@
    "Z" :> 65338 @@
    "a" :> 65345 @@
    "b" :> 65346 @@
    "c" :> 65347 @@
    "d" :> 65348 @@
    "e" :> 65349 @@
    "f" :> 65350 @@
    "g" :> 65351 @@
    "h" :> 65352 @@
    "i" :> 65353 @@
    "j" :> 65354 @@
    "k" :> 65355 @@
    "l" :> 65356 @@
    "m" :> 65357 @@
    "n" :> 65358 @@
    "o" :> 65359 @@
    "p" :> 65360 @@
    "q" :> 65361 @@
    "r" :> 65362 @@
    "s" :> 65363 @@
    "t" :> 65364 @@
    "u" :> 65365 @@
    "v" :> 65366 @@
    "w" :> 65367 @@
    "x" :> 65368 @@
    "y" :> 65369 @@
    "z" :> 65370

EMOTICONS_UNICODE ==
    "SMILEY FACE WITH OPEN MOUTH" :> 128515 @@
    "NEUTRAL FACE" :> 128528 @@
    "DISAPPOINTED FACE" :> 128542 @@
    "LOUDLY CRYING FACE" :> 128557

ARROWS_UNICODE ==
    "RIGHTWARDS ARROW" :> 8594 @@
    "RIGHTWARDS PAIRED ARROWS" :> 8649 @@
    "THREE RIGHTWARDS ARROWS" :> 8694

DEGREE_CELSIUS_UNICODE == 8451

WEATHER_UNICODE ==
    "CRESCENT MOON" :> 127769 @@
    "BLACK SUN WITH RAYS" :> 9728 @@
    "SUN BEHIND CLOUD" :> 9925 @@
    "CLOUD" :> 9729 @@
    "FOGGY" :> 127745 @@
    "UMBRELLA WITH RAIN DROPS" :> 9748 @@
    "SNOWFLAKE" :> 10052 @@
    "THUNDER CLOUD AND RAIN" :> 9928

MERIDIEM_UNICODE ==
    "SQUARE AM" :> 13250 @@
    "SQUARE PM" :> 13272

WEATHER_TYPES ==
    "Clear night" :> 0 @@
    "Sunny day" :> 1 @@
    "Partly cloudy (night)" :> 2 @@
    "Partly cloudy (day)" :> 3 @@
    "Not used" :> 4 @@
    "Mist" :> 5 @@
    "Fog" :> 6 @@
    "Cloudy" :> 7 @@
    "Overcast" :> 8 @@
    "Light rain shower (night)" :> 9 @@
    "Light rain shower (day)" :> 10 @@
    "Drizzle" :> 11 @@
    "Light rain" :> 12 @@
    "Heavy rain shower (night)" :> 13 @@
    "Heavy rain shower (day)" :> 14 @@
    "Heavy rain" :> 15 @@
    "Sleet shower (night)" :> 16 @@
    "Sleet shower (day)" :> 17 @@
    "Sleet" :> 18 @@
    "Hail shower (night)" :> 19 @@
    "Hail shower (day)" :> 20 @@
    "Hail" :> 21 @@
    "Light snow shower (night)" :> 22 @@
    "Light snow shower (day)" :> 23 @@
    "Light snow" :> 24 @@
    "Heavy snow shower: (night)" :> 25 @@
    "Heavy snow shower (day)" :> 26 @@
    "Heavy snow" :> 27 @@
    "Thunder shower (night)" :> 28 @@
    "Thunder shower (day)" :> 29 @@
    "Thunder" :> 30

-----------------------------------------------------------------------------
(* string_to_fullwidth *)

\* the loop `for char in string: fullwidth_string += FULLWIDTH_UNICODE[char]`
RECURSIVE fullwidth_loop(_, _)
fullwidth_loop(string, fullwidth_string) ==
    IF string = <<>> THEN Return(fullwidth_string)
    ELSE IF Head(string) \notin DOMAIN FULLWIDTH_UNICODE THEN Raise("KeyError")
    ELSE fullwidth_loop(Tail(string),
                        Append(fullwidth_string, FULLWIDTH_UNICODE[Head(string)]))

\* a loop that leaves out the characters the table lacks
RECURSIVE fullwidth_loop_get(_, _)
fullwidth_loop_get(string, fullwidth_string) ==
    IF string = <<>> THEN Return(fullwidth_string)
    ELSE IF Head(string) \notin DOMAIN FULLWIDTH_UNICODE
         THEN fullwidth_loop_get(Tail(string), fullwidth_string)
    ELSE fullwidth_loop_get(Tail(string),
                            Append(fullwidth_string, FULLWIDTH_UNICODE[Head(string)]))

string_to_fullwidth_get(string, rjustlen) ==
    fullwidth_loop_get(IF rjustlen > 0 THEN rjust(string, rjustlen) ELSE string, <<>>)

string_to_fullwidth_ljust(string, rjustlen) ==
    fullwidth_loop(IF rjustlen > 0 THEN ljust(string, rjustlen) ELSE string, <<>>)

string_to_fullwidth(string, rjustlen) ==
    fullwidth_loop(IF rjustlen > 0 THEN rjust(string, rjustlen) ELSE string, <<>>)

-----------------------------------------------------------------------------
(* The field formatters *)

\* time is the hour of a datetime.time
get_am_pm(time) ==
    IF time < 12 THEN MERIDIEM_UNICODE["SQUARE AM"]
    ELSE MERIDIEM_UNICODE["SQUARE PM"]

clear_night == {WEATHER_TYPES["Clear night"]}
sun == {WEATHER_TYPES["Sunny day"]}
sun_cloud == {WEATHER_TYPES["Partly cloudy (day)"]}
cloud == {WEATHER_TYPES["Partly cloudy (night)"],
          WEATHER_TYPES["Cloudy"],
          WEATHER_TYPES["Overcast"]}
fog == {WEATHER_TYPES["Mist"], WEATHER_TYPES["Fog"]}
rain == range(WEATHER_TYPES["Light rain shower (night)"], WEATHER_TYPES["Hail"])
snow == range(WEATHER_TYPES["Light snow shower (night)"], WEATHER_TYPES["Heavy snow"])
thunder == range(WEATHER_TYPES["Thunder shower (night)"], WEATHER_TYPES["Thunder"])

\* rain closed at its upper end: range(9, 21 + 1)
get_weather_icon_closed(weather_type) ==
    IF weather_type \in clear_night THEN WEATHER_UNICODE["CRESCENT MOON"]
    ELSE IF weather_type \in sun THEN WEATHER_UNICODE["BLACK SUN WITH RAYS"]
    ELSE IF weather_type \in sun_cloud THEN WEATHER_UNICODE["SUN BEHIND CLOUD"]
    ELSE IF weather_type \in cloud THEN WEATHER_UNICODE["CLOUD"]
    ELSE IF weather_type \in fog THEN WEATHER_UNICODE["FOGGY"]
    ELSE IF weather_type \in rain \cup {WEATHER_TYPES["Hail"]}
         THEN WEATHER_UNICODE["UMBRELLA WITH RAIN DROPS"]
    ELSE IF weather_type \in snow THEN WEATHER_UNICODE["SNOWFLAKE"]
    ELSE IF weather_type \in thunder THEN WEATHER_UNICODE["THUNDER CLOUD AND RAIN"]
    ELSE WEATHER_UNICODE["CLOUD"]

\* thunder without an upper end: weather_type >= 28
get_weather_icon_open(weather_type) ==
    IF weather_type \in clear_night THEN WEATHER_UNICODE["CRESCENT MOON"]
    ELSE IF weather_type \in sun THEN WEATHER_UNICODE["BLACK SUN WITH RAYS"]
    ELSE IF weather_type \in sun_cloud THEN WEATHER_UNICODE["SUN BEHIND CLOUD"]
    ELSE IF weather_type \in cloud THEN WEATHER_UNICODE["CLOUD"]
    ELSE IF weather_type \in fog THEN WEATHER_UNICODE["FOGGY"]
    ELSE IF weather_type \in rain THEN WEATHER_UNICODE["UMBRELLA WITH RAIN DROPS"]
    ELSE IF weather_type \in snow THEN WEATHER_UNICODE["SNOWFLAKE"]
    ELSE IF weather_type >= WEATHER_TYPES["Thunder shower (night)"]
         THEN WEATHER_UNICODE["THUNDER CLOUD AND RAIN"]
    ELSE WEATHER_UNICODE["CLOUD"]

get_weather_icon(weather_type) ==
    IF weather_type \in clear_night THEN WEATHER_UNICODE["CRESCENT MOON"]
    ELSE IF weather_type \in sun THEN WEATHER_UNICODE["BLACK SUN WITH RAYS"]
    ELSE IF weather_type \in sun_cloud THEN WEATHER_UNICODE["SUN BEHIND CLOUD"]
    ELSE IF weather_type \in cloud THEN WEATHER_UNICODE["CLOUD"]
    ELSE IF weather_type \in fog THEN WEATHER_UNICODE["FOGGY"]
    ELSE IF weather_type \in rain THEN WEATHER_UNICODE["UMBRELLA WITH RAIN DROPS"]
    ELSE IF weather_type \in snow THEN WEATHER_UNICODE["SNOWFLAKE"]
    ELSE IF weather_type \in thunder THEN WEATHER_UNICODE["THUNDER CLOUD AND RAIN"]
    ELSE WEATHER_UNICODE["CLOUD"]

get_temperature(temperature) ==
    LET fw == string_to_fullwidth(str(temperature), 3)
    IN  IF fw.kind = "raise" THEN fw
        ELSE Return(fw.value \o <<DEGREE_CELSIUS_UNICODE>>)

\* `if speed <= 10` in place of `if speed < 10`
get_wind_speed_le(speed) ==
    LET arrow == IF speed <= 10 THEN ARROWS_UNICODE["RIGHTWARDS ARROW"]
                 ELSE IF speed < 20 THEN ARROWS_UNICODE["RIGHTWARDS PAIRED ARROWS"]
                 ELSE ARROWS_UNICODE["THREE RIGHTWARDS ARROWS"]
        fw == string_to_fullwidth(str(speed), 2)
    IN  IF fw.kind = "raise" THEN fw
        ELSE Return(<<arrow>> \o fw.value \o MPH)

get_wind_speed(speed) ==
    LET arrow == IF speed < 10 THEN ARROWS_UNICODE["RIGHTWARDS ARROW"]
                 ELSE IF speed < 20 THEN ARROWS_UNICODE["RIGHTWARDS PAIRED ARROWS"]
                 ELSE ARROWS_UNICODE["THREE RIGHTWARDS ARROWS"]
        fw == string_to_fullwidth(str(speed), 2)
    IN  IF fw.kind = "raise" THEN fw
        ELSE Return(<<arrow>> \o fw.value \o MPH)

-----------------------------------------------------------------------------
(* calc_nice_day_emoticon *)

nice_weather_types == {WEATHER_TYPES["Clear night"],
                       WEATHER_TYPES["Sunny day"],
                       WEATHER_TYPES["Partly cloudy (night)"],
                       WEATHER_TYPES["Partly cloudy (day)"],
                       WEATHER_TYPES["Cloudy"]}

\* the loop over enumerate(reversed(recent_forecasts)), from position pos on
RECURSIVE nice_loop(_, _)
nice_loop(pos, recent) ==
    IF recent = <<>> THEN EMOTICONS_UNICODE["SMILEY FACE WITH OPEN MOUTH"]
    ELSE IF ~(/\ Head(recent).weather_type \in nice_weather_types
              /\ Head(recent).wind_speed_mph <= 15
              /\ Head(recent).rain_probability_pc <= 20)
         THEN IF pos <= 1 THEN EMOTICONS_UNICODE["LOUDLY CRYING FACE"]
              ELSE EMOTICONS_UNICODE["NEUTRAL FACE"]
    ELSE nice_loop(pos + 1, Tail(recent))

\* a window of the previous four forecasts: forecasts[max(current_index - 4, 0):...]
calc_nice_day_emoticon_4(current_index, fs) ==
    nice_loop(0, reversed(slice(fs, max(current_index - 4, 0), current_index + 1)))

calc_nice_day_emoticon(current_index, fs) ==
    LET recent_forecasts == slice(fs, max(current_index - 3, 0), current_index + 1)
    IN  nice_loop(0, reversed(recent_forecasts))

-----------------------------------------------------------------------------
(* Direct calls of the functions, on inputs drawn from bounded sets *)

SeqsUpTo(S, n) == UNION {[1..k -> S] : k \in 0..n}

\* characters handed to string_to_fullwidth: in the table and not in it
Chars == {"A", "z", "7", " ", "-", "!"}

\* forecasts as calc_nice_day_emoticon reads them
NiceSamples ==
    {[weather_type |-> 1, wind_speed_mph |-> 15, rain_probability_pc |-> 20],
     [weather_type |-> 7, wind_speed_mph |-> 0, rain_probability_pc |-> 0],
     [weather_type |-> 8, wind_speed_mph |-> 15, rain_probability_pc |-> 20],
     [weather_type |-> 3, wind_speed_mph |-> 16, rain_probability_pc |-> 20],
     [weather_type |-> 2, wind_speed_mph |-> 15, rain_probability_pc |-> 21]}

NoCall == [fn |-> "none", args |-> <<>>]

\* the run of the program has not begun
RunIdle ==
    /\ pc = "idle"
    /\ environ = {}
    /\ argv = <<>>
    /\ location_name = ""
    /\ forecasts = <<>>
    /\ i = 0
    /\ body = <<>>
    /\ raised = ""
    /\ pushes = <<>>
    /\ log = <<>>
    /\ exit_status = -1

InitCalls ==
    /\ \/ \E string \in SeqsUpTo(Chars, MaxStrLen), rjustlen \in -1..MaxWidth :
              call = [fn |-> "string_to_fullwidth", args |-> <<string, rjustlen>>]
       \/ \E weather_type \in (-MaxBelow)..(30 + MaxAbove) :
              call = [fn |-> "get_weather_icon", args |-> <<weather_type>>]
       \/ \E speed \in 0..MaxSpeed :
              call = [fn |-> "get_wind_speed", args |-> <<speed>>]
       \/ \E fs \in SeqsUpTo(NiceSamples, MaxForecasts) \ {<<>>} :
              \E current_index \in 0..(Len(fs) - 1) :
                  call = [fn |-> "calc_nice_day_emoticon", args |-> <<current_index, fs>>]
    /\ ret = Pending
    /\ RunIdle

CallStringToFullwidth ==
    /\ call.fn = "string_to_fullwidth"
    /\ ret = Pending
    /\ ret' = string_to_fullwidth(call.args[1], call.args[2])
    /\ UNCHANGED <<call, runVars>>

CallGetWeatherIcon ==
    /\ call.fn = "get_weather_icon"
    /\ ret = Pending
    /\ ret' = Return(get_weather_icon(call.args[1]))
    /\ UNCHANGED <<call, runVars>>

CallGetWindSpeed ==
    /\ call.fn = "get_wind_speed"
    /\ ret = Pending
    /\ ret' = get_wind_speed(call.args[1])
    /\ UNCHANGED <<call, runVars>>

CallCalcNiceDayEmoticon ==
    /\ call.fn = "calc_nice_day_emoticon"
    /\ ret = Pending
    /\ ret' = Return(calc_nice_day_emoticon(call.args[1], call.args[2]))
    /\ UNCHANGED <<call, runVars>>

NextCalls ==
    \/ CallStringToFullwidth
    \/ CallGetWeatherIcon
    \/ CallGetWindSpeed
    \/ CallCalcNiceDayEmoticon

SpecCalls == InitCalls /\ [][NextCalls]_vars

-----------------------------------------------------------------------------
(* One run of the program *)

LocationNames == {"Exeter", "Leeds"}

\* 3-hourly reports of a response: date is the weekday of the period's date
\* (0 = Monday), minutes is rep['$'], a multiple of 180
RepSamples ==
    {[date |-> 0, minutes |-> 540, W |-> 1, T |-> 12, S |-> 9, Pp |-> 10],
     [date |-> 0, minutes |-> 720, W |-> 12, T |-> -3, S |-> 22, Pp |-> 80],
     [date |-> 5, minutes |-> 360, W |-> 7, T |-> 8, S |-> 15, Pp |-> 20],
     [date |-> 6, minutes |-> 1260, W |-> 21, T |-> 0, S |-> 10, Pp |-> 30]}

\* the forecast dict built from one rep; minutes is a multiple of 180, where
\* int(rep['$']) / (24 * 60 / 8) is a whole number under either division
forecast_of(rep) ==
    [period |-> rep.minutes \div ((24 * 60) \div 8) + 1,
     from |-> [weekday |-> (rep.date + rep.minutes \div (24 * 60)) % 7,
               hour |-> (rep.minutes % (24 * 60)) \div 60],
     weather_type |-> rep.W,
     temperature_c |-> rep.T,
     wind_speed_mph |-> rep.S,
     rain_probability_pc |-> rep.Pp]

\* datetime.strftime('%a')
strftime_a(from) ==
    << <<"M", "o", "n">>, <<"T", "u", "e">>, <<"W", "e", "d">>, <<"T", "h", "u">>,
       <<"F", "r", "i">>, <<"S", "a", "t">>, <<"S", "u", "n">> >>[from.weekday + 1]

\* `if forecast['period'] == 4 or forecast['period'] == 5`
selected(forecast) == forecast.period = 4 \/ forecast.period = 5

\* `if i > 0` in place of `if body != ''`
separator_index(idx, b) == IF idx > 0 THEN <<NEWLINE>> ELSE <<>>

\* `if body != '': body += '\n'`
separator(idx, b) == IF b # <<>> THEN <<NEWLINE>> ELSE <<>>

\* the pieces appended to body for forecasts[idx], in order
compose_line(idx, fs) ==
    LET forecast == fs[idx + 1]
        day == string_to_fullwidth(upper(strftime_a(forecast.from)), 0)
        temperature == get_temperature(forecast.temperature_c)
        wind == get_wind_speed(forecast.wind_speed_mph)
    IN  IF day.kind = "raise" THEN day
        ELSE IF temperature.kind = "raise" THEN temperature
        ELSE IF wind.kind = "raise" THEN wind
        ELSE Return(day.value
                    \o <<get_am_pm(forecast.from.hour)>>
                    \o <<calc_nice_day_emoticon(idx, fs)>>
                    \o <<get_weather_icon(forecast.weather_type)>>
                    \o temperature.value
                    \o wind.value)

Init ==
    /\ call = NoCall
    /\ ret = Pending
    /\ pc = "import"
    /\ environ \in SUBSET {"PUSHBULLET_API_KEY", "MET_OFFICE_API_KEY"}
    /\ argv \in {<<"prog">>, <<"prog", "310069">>, <<"prog", "310069", "x">>}
    /\ location_name = ""
    /\ forecasts = <<>>
    /\ i = 0
    /\ body = <<>>
    /\ raised = ""
    /\ pushes = <<>>
    /\ log = <<>>
    /\ exit_status = -1

\* an exception nothing catches: the traceback is printed, the status is 1
Uncaught(exc) ==
    /\ raised' = exc
    /\ pc' = "exit"
    /\ exit_status' = 1

\* `except: logging.exception('Error occurred:')`, then main returns
Caught(exc) ==
    /\ raised' = exc
    /\ log' = Append(log, "Error occurred:")
    /\ pc' = "exit"
    /\ exit_status' = 0

\* the module body: the two os.environ lookups
Import ==
    /\ pc = "import"
    /\ IF {"PUSHBULLET_API_KEY", "MET_OFFICE_API_KEY"} \subseteq environ
       THEN /\ pc' = "main"
            /\ UNCHANGED <<raised, exit_status>>
       ELSE Uncaught("KeyError")
    /\ UNCHANGED <<callVars, environ, argv, location_name, forecasts, i, body,
                   pushes, log>>

\* main up to the call of get_met_office_3hourly_forecast
CheckArgv ==
    /\ pc = "main"
    /\ IF Len(argv) # 2
       THEN /\ log' = Append(log, "Please enter a Met Office location ID")
            /\ pc' = "exit"
            /\ exit_status' = 0
       ELSE /\ pc' = "fetch"
            /\ UNCHANGED <<log, exit_status>>
    /\ UNCHANGED <<callVars, environ, argv, location_name, forecasts, i, body,
                   raised, pushes>>

\* get_met_office_3hourly_forecast(sys.argv[1]) and `body = ''`
GetForecast ==
    /\ pc = "fetch"
    /\ \/ /\ Uncaught("HTTPError")        \* requests.get or raise_for_status raises
          /\ UNCHANGED <<location_name, forecasts>>
       \/ \E name \in LocationNames, reps \in SeqsUpTo(RepSamples, MaxReps) :
             IF reps = <<>>
             THEN /\ Uncaught("IndexError")    \* forecasts[0] of the logging call
                  /\ UNCHANGED <<location_name, forecasts>>
             ELSE /\ location_name' = name
                  /\ forecasts' = [k \in 1..Len(reps) |-> forecast_of(reps[k])]
                  /\ pc' = "compose"
                  /\ UNCHANGED <<raised, exit_status>>
    /\ UNCHANGED <<callVars, environ, argv, i, body, pushes, log>>

\* one turn of `for i, forecast in enumerate(forecasts)`
ComposeForecast ==
    /\ pc = "compose"
    /\ i < Len(forecasts)
    /\ IF ~selected(forecasts[i + 1])
       THEN /\ i' = i + 1
            /\ UNCHANGED <<body, raised, log, pc, exit_status>>
       ELSE LET line == compose_line(i, forecasts)
            IN  IF line.kind = "raise"
                THEN /\ body' = body \o separator(i, body)
                     /\ Caught(line.value)
                     /\ UNCHANGED i
                ELSE /\ body' = body \o separator(i, body) \o line.value
                     /\ i' = i + 1
                     /\ UNCHANGED <<raised, log, pc, exit_status>>
    /\ UNCHANGED <<callVars, environ, argv, location_name, forecasts, pushes>>

\* an exception raised in the try block while the line of a selected record is
\* composed (the bare except catches every BaseException)
ComposeRaises ==
    /\ pc = "compose"
    /\ i < Len(forecasts)
    /\ selected(forecasts[i + 1])
    /\ body' = body \o separator(i, body)
    /\ Caught("BaseException")
    /\ UNCHANGED <<callVars, environ, argv, location_name, forecasts, i, pushes>>

\* Pushbullet(PUSHBULLET_API_KEY).push_note(title, body) inside the loop
PushNoteInLoop ==
    /\ pc = "compose"
    /\ i >= 1
    /\ pushes' = Append(pushes, [title |-> <<"Weather for ", location_name>>,
                                 body |-> body])
    /\ IF i = Len(forecasts)
       THEN /\ pc' = "exit" /\ exit_status' = 0
       ELSE UNCHANGED <<pc, exit_status>>
    /\ UNCHANGED <<callVars, environ, argv, location_name, forecasts, i, body,
                   raised, log>>

\* Pushbullet(PUSHBULLET_API_KEY).push_note(title, body): the sink delivers
\* or raises
PushNote ==
    /\ pc = "compose"
    /\ i = Len(forecasts)
    /\ pushes' = Append(pushes, [title |-> <<"Weather for ", location_name>>,
                                 body |-> body])
    /\ \E delivered \in BOOLEAN :
          IF delivered
          THEN /\ pc' = "exit"
               /\ exit_status' = 0
               /\ UNCHANGED <<raised, log>>
          ELSE Caught("PushbulletError")
    /\ UNCHANGED <<callVars, environ, argv, location_name, forecasts, i, body>>

Next ==
    \/ Import
    \/ CheckArgv
    \/ GetForecast
    \/ ComposeForecast
    \/ ComposeRaises
    \/ PushNote

Spec == Init /\ [][Next]_vars

-----------------------------------------------------------------------------
(* Properties of calc_nice_day_emoticon *)

\* a record that is nice, as the classifier's contract words it
NiceRecord(f) ==
    /\ f.weather_type \in {0, 1, 2, 3, 7}
    /\ f.wind_speed_mph <= 15
    /\ f.rain_probability_pc <= 20

\* C1: calc_nice_day_emoticon(index, forecasts) is decided by the window
\* forecasts[max(index-3,0) .. index] alone (at most 4 records, 1 at index 0):
\* with position 0 the most recent record, the first position that is not nice
\* gives the sad face when it is <= 1 and the neutral face otherwise, and a
\* window of nice records gives the happy face.
C1_NiceDayRecency ==
    (call.fn = "calc_nice_day_emoticon" /\ ret # Pending) =>
        LET index == call.args[1]
            fs == call.args[2]
            first == IF index - 3 > 0 THEN index - 3 ELSE 0
            size == index - first + 1
            Bad == {p \in 0..(size - 1) : ~NiceRecord(fs[index - p + 1])}
            firstBad == CHOOSE p \in Bad : \A q \in Bad : p <= q
        IN  /\ size <= 4
            /\ (index = 0 => size = 1)
            /\ ret = Return(IF Bad = {}
                            THEN EMOTICONS_UNICODE["SMILEY FACE WITH OPEN MOUTH"]
                            ELSE IF firstBad <= 1
                            THEN EMOTICONS_UNICODE["LOUDLY CRYING FACE"]
                            ELSE EMOTICONS_UNICODE["NEUTRAL FACE"])

\* five forecasts, the oldest not nice and outside the window of index 4: happy
C1_Witness ==
    /\ call.fn = "calc_nice_day_emoticon"
    /\ call.args[1] = 4
    /\ Len(call.args[2]) = 5
    /\ ~NiceRecord(call.args[2][1])
    /\ \A k \in 2..5 : NiceRecord(call.args[2][k])
    /\ ret = Return(EMOTICONS_UNICODE["SMILEY FACE WITH OPEN MOUTH"])

-----------------------------------------------------------------------------
(* Properties of get_weather_icon *)

\* C2: for every weather type code in 0..30 get_weather_icon returns the icon
\* of the partition {0} moon, {1} sun, {3} sun behind cloud, {2,7,8} cloud,
\* {5,6} fog, 9..20 rain, 22..26 snow, 28..29 thunder, and cloud for the gap
\* codes 4, 21, 27 and 30.
C2_IconPartition ==
    (call.fn = "get_weather_icon" /\ ret # Pending /\ call.args[1] \in 0..30) =>
        LET c == call.args[1]
        IN  ret = Return(CASE c = 0 -> WEATHER_UNICODE["CRESCENT MOON"]
                           [] c = 1 -> WEATHER_UNICODE["BLACK SUN WITH RAYS"]
                           [] c = 3 -> WEATHER_UNICODE["SUN BEHIND CLOUD"]
                           [] c \in {2, 7, 8} -> WEATHER_UNICODE["CLOUD"]
                           [] c \in {5, 6} -> WEATHER_UNICODE["FOGGY"]
                           [] c \in 9..20 -> WEATHER_UNICODE["UMBRELLA WITH RAIN DROPS"]
                           [] c \in 22..26 -> WEATHER_UNICODE["SNOWFLAKE"]
                           [] c \in 28..29 -> WEATHER_UNICODE["THUNDER CLOUD AND RAIN"]
                           [] c \in {4, 21, 27, 30} -> WEATHER_UNICODE["CLOUD"])

\* the gap code 21 (Hail) came back as the cloud
C2_Witness ==
    /\ call.fn = "get_weather_icon"
    /\ call.args[1] = 21
    /\ ret = Return(WEATHER_UNICODE["CLOUD"])

\* C8 as stated: a weather type code outside 0..30 is rejected, not answered.
C8_OutOfRangeRejected ==
    (call.fn = "get_weather_icon" /\ ret # Pending /\ call.args[1] \notin 0..30) =>
        ret.kind = "raise"

\* C8 as amended: get_weather_icon rejects no code; every weather type code
\* outside 0..30 returns the cloud icon, like the gap codes in range.
C8_OutOfRangeIsCloud ==
    (call.fn = "get_weather_icon" /\ ret # Pending /\ call.args[1] \notin 0..30) =>
        ret = Return(WEATHER_UNICODE["CLOUD"])

\* the code 31 came back as the cloud
C8_Witness ==
    /\ call.fn = "get_weather_icon"
    /\ call.args[1] = 31
    /\ ret = Return(WEATHER_UNICODE["CLOUD"])

-----------------------------------------------------------------------------
(* Properties of string_to_fullwidth *)

\* ASCII letters, digits, space and hyphen
Supported ==
    {LOWER[k] : k \in 1..26} \cup {UPPER[k] : k \in 1..26}
        \cup {DIGITS[k] : k \in 1..10} \cup {" ", "-"}

\* C4: for a string s of supported characters string_to_fullwidth(s, w)
\* returns max(len(s), w) glyphs (so exactly w when w >= len(s)): fullwidth
\* spaces on the left, then the glyph of each character of s in order.
C4_EncodeWidth ==
    (/\ call.fn = "string_to_fullwidth"
     /\ ret # Pending
     /\ \A k \in 1..Len(call.args[1]) : call.args[1][k] \in Supported) =>
        LET s == call.args[1]
            w == call.args[2]
            n == IF Len(s) >= w THEN Len(s) ELSE w
            pad == n - Len(s)
        IN  /\ ret.kind = "return"
            /\ Len(ret.value) = n
            /\ (w >= Len(s) => Len(ret.value) = w)
            /\ \A k \in 1..pad : ret.value[k] = FULLWIDTH_UNICODE[" "]
            /\ \A k \in 1..Len(s) : ret.value[pad + k] = FULLWIDTH_UNICODE[s[k]]

\* "-7" encoded to width 4: two fullwidth spaces, then the two glyphs
C4_Witness ==
    /\ call.fn = "string_to_fullwidth"
    /\ call.args = << <<"-", "7">>, 4 >>
    /\ ret = Return(<<12288, 12288, 65293, 65303>>)

-----------------------------------------------------------------------------
(* Properties of get_wind_speed *)

\* C6: for mph >= 0 get_wind_speed returns the single arrow when mph < 10, the
\* paired arrows when 10 <= mph < 20 and the three arrows when mph >= 20, then
\* the fullwidth digits of mph right-justified to width 2, then ASCII "mph".
C6_WindBands ==
    (call.fn = "get_wind_speed" /\ ret # Pending) =>
        LET mph == call.args[1]
            arrow == IF mph < 10 THEN 8594 ELSE IF mph < 20 THEN 8649 ELSE 8694
            digits == IF mph < 10 THEN <<12288, 65296 + mph>>
                      ELSE IF mph < 100
                      THEN <<65296 + (mph \div 10), 65296 + (mph % 10)>>
                      ELSE <<65296 + (mph \div 100), 65296 + ((mph \div 10) % 10),
                             65296 + (mph % 10)>>
        IN  ret = Return(<<arrow>> \o digits \o <<109, 112, 104>>)

\* 10 mph came back with the paired arrows
C6_Witness ==
    /\ call.fn = "get_wind_speed"
    /\ call.args[1] = 10
    /\ ret.kind = "return"
    /\ ret.value[1] = ARROWS_UNICODE["RIGHTWARDS PAIRED ARROWS"]

-----------------------------------------------------------------------------
(* Properties of a run *)

\* the forecasts came back and the loop over them ran to its end
Composed == forecasts # <<>> /\ i = Len(forecasts)

SelectedAt(fs) == {k \in 1..Len(fs) : fs[k].period \in {4, 5}}

NthSelected(fs, j) ==
    CHOOSE k \in SelectedAt(fs) : Cardinality({m \in SelectedAt(fs) : m <= k}) = j

\* the lines of the first n selected records, a newline between neighbours
RECURSIVE JoinedLines(_, _)
JoinedLines(fs, n) ==
    IF n = 0 THEN <<>>
    ELSE IF n = 1 THEN compose_line(NthSelected(fs, 1) - 1, fs).value
    ELSE JoinedLines(fs, n - 1) \o <<10>>
             \o compose_line(NthSelected(fs, n) - 1, fs).value

C7_ExitStatus ==
    pc = "exit" =>
        /\ (exit_status = 0 <=> Composed)
        /\ (\/ raised \in {"HTTPError", "IndexError"}
            \/ ~({"PUSHBULLET_API_KEY", "MET_OFFICE_API_KEY"} \subseteq environ))
               => exit_status # 0

\* C9 as stated: a run whose delivery failed does not end as a successful run.
C9_DeliveryFailureSurfaced ==
    (pc = "exit" /\ raised = "PushbulletError") => exit_status # 0

\* C10: push_note is called at most once, only after the forecasts came back
\* and every selected line was composed, with the complete body and the title
\* of the location; never when the location argument is missing, the source
\* failed or composing raised; and always once composing is through, even with
\* an empty body.
C10_SinkDiscipline ==
    /\ Len(pushes) <= 1
    /\ pushes # <<>> =>
           /\ Composed
           /\ raised \in {"", "PushbulletError"}
           /\ pushes[1].title = <<"Weather for ", location_name>>
           /\ pushes[1].body = JoinedLines(forecasts, Cardinality(SelectedAt(forecasts)))
    /\ (\/ Len(argv) # 2
        \/ raised \in {"KeyError", "HTTPError", "IndexError", "BaseException"})
           => pushes = <<>>
    /\ (pc = "exit" /\ Composed) => Len(pushes) = 1

\* a run that composed an empty body and still called push_note with it
C10_Witness ==
    /\ pc = "exit"
    /\ Composed
    /\ Len(pushes) = 1
    /\ pushes[1].body = <<>>
    /\ pushes[1].title = <<"Weather for ", "Leeds">>

====
